---- MODULE Spec2Model ----
(***************************************************************************)
(* Model of two context-engine providers:                                  *)
(*   RAGContextInjector          (providers/RAGContextInjector.ts)         *)
(*   PlaceholderVariableInjector (providers/PlaceholderVariableInjector.ts)*)
(*                                                                         *)
(* Text is a sequence of symbols.  A symbol is a one-character string, or  *)
(* a named literal standing for a fixed piece of text of the source (the   *)
(* Chinese instruction sentences), whose length LitLen records.            *)
(* Numbers of type `number` are binary floating point with Precision       *)
(* significant bits, held as integers counting units of 2^-Precision.      *)
(* The `log` calls are a side-effect sink and change no state.             *)
(***************************************************************************)
EXTENDS Integers, Sequences, FiniteSets, TLC

VARIABLES config, ret, variables, pret

vars == <<config, ret, variables, pret>>

(***************************** bounds *************************************)
MaxChunks == 3
MaxMsgs == 2
Precision == 10
MaxParts == 3

(***************************** text ***************************************)
NL == "\n"
SP == " "

IsSpace(c) == c \in {SP, NL}

Rep(n, c) == [i \in 1..n |-> c]

Min2(a, b) == IF a <= b THEN a ELSE b
Max2(a, b) == IF a >= b THEN a ELSE b

\* String.prototype.substring(0, n): the first n code units, clamped.
Substring0(t, n) == SubSeq(t, 1, Min2(Max2(n, 0), Len(t)))

RECURSIVE FirstNonSpace(_, _)
FirstNonSpace(t, i) ==
  IF i > Len(t) THEN i
  ELSE IF IsSpace(t[i]) THEN FirstNonSpace(t, i + 1) ELSE i

RECURSIVE LastNonSpace(_, _)
LastNonSpace(t, i) ==
  IF i < 1 THEN i
  ELSE IF IsSpace(t[i]) THEN LastNonSpace(t, i - 1) ELSE i

\* String.prototype.trim()
Trim(t) == SubSeq(t, FirstNonSpace(t, 1), LastNonSpace(t, Len(t)))

\* Array.prototype.join(sep)
RECURSIVE Join(_, _)
Join(parts, sep) ==
  IF Len(parts) = 0 THEN <<>>
  ELSE IF Len(parts) = 1 THEN parts[1]
  ELSE parts[1] \o sep \o Join(Tail(parts), sep)

\* Lengths of the fixed texts of buildRAGContext, in UTF-16 code units.
LitLen ==
  [ PREAMBLE    |-> 26,
    REF_OPEN    |-> 6,
    REF_MID     |-> 8,
    REF_CLOSE   |-> 2,
    REWRITE_HDR |-> 11,
    REWRITE_PRE |-> 14,
    CLOSING     |-> 37 ]

SymLen(s) == IF s \in DOMAIN LitLen THEN LitLen[s] ELSE Len(s)

\* String.prototype.length
RECURSIVE LengthBetween(_, _, _)
LengthBetween(t, lo, hi) ==
  IF lo > hi THEN 0
  ELSE IF lo = hi THEN SymLen(t[lo])
  ELSE LET mid == (lo + hi) \div 2
       IN LengthBetween(t, lo, mid) + LengthBetween(t, mid + 1, hi)

TextLength(t) == LengthBetween(t, 1, Len(t))

(***************************** numbers ************************************)
RECURSIVE Pow2(_)
Pow2(n) == IF n = 0 THEN 1 ELSE 2 * Pow2(n - 1)

\* One unit is 2^-Precision, the spacing of the floats in [0.5, 1).
Unit == Pow2(Precision)

RECURSIVE Ulp(_, _, _)
Ulp(num, den, u) == IF num < den * Unit * u THEN u ELSE Ulp(num, den, 2 * u)

\* The float nearest to num/den (units), ties to even; num/den >= 0.5 or = 0.
FlRound(num, den) ==
  IF num = 0 THEN 0
  ELSE LET u == Ulp(num, den, 1)
           q == num \div (den * u)
           r == num - q * den * u
           up == IF 2 * r > den * u \/ (2 * r = den * u /\ q % 2 = 1) THEN 1 ELSE 0
       IN (q + up) * u

FlAdd(a, b) == FlRound(a + b, 1)
FlDiv(a, n) == FlRound(a, n)
FlMul(a, k) == FlRound(a * k, 1)

\* Number.prototype.toFixed(1): the decimal with one digit nearest to x,
\* the larger one on a tie.
ToFixed1(x) ==
  LET n == (20 * x + Unit) \div (2 * Unit)
  IN <<ToString(n \div 10), ".", ToString(n % 10)>>

(***************************** values *************************************)
Undefined == 0 - 1

\* Similarities: 0.75 and the float nearest to 0.9.
SimLow == (3 * Unit) \div 4
SimHigh == (9 * Unit + 5) \div 10
SimValues == {SimLow, SimHigh}

\* Chunk contents: 80 characters, and 120 characters with blanks at the ends.
ContentShort == Rep(80, "b")
ContentLong == <<SP>> \o Rep(118, "c") \o <<SP>>
Contents == {ContentShort, ContentLong}

ChunkBodies ==
  { [content |-> ContentShort, similarity |-> SimLow],
    [content |-> ContentShort, similarity |-> SimHigh],
    [content |-> ContentLong, similarity |-> SimHigh] }

\* A chunk list: the i-th chunk carries id i as its passthrough field.
ChunkLists ==
  UNION { { [i \in 1..n |-> [id |-> i, content |-> b[i].content,
                             similarity |-> b[i].similarity]] :
            b \in [1..n -> ChunkBodies] } : n \in 0..MaxChunks }

\* The lists setChunks is called with (the constructor takes any list).
SetterLists == {c \in ChunkLists : Len(c) <= 1}

MaxLenValues == {0, 150, 180, 181}

MinSimValues == {SimHigh}
SortValues == {"undefined", "false"}
RewriteValues == {<<>>, <<"q">>}

(***************************** RAGContextInjector **************************)
MinFragment == 100
Ellipsis == <<".", ".", ".">>

RECURSIVE truncateFrom(_, _, _, _)
truncateFrom(chunks, i, totalLength, maxLength) ==
  IF i > Len(chunks) THEN <<>>
  ELSE LET chunk == chunks[i]
           chunkLength == Len(chunk.content)
       IN IF totalLength + chunkLength <= maxLength
          THEN <<chunk>> \o truncateFrom(chunks, i + 1, totalLength + chunkLength, maxLength)
          ELSE LET remainingLength == maxLength - totalLength
               IN IF remainingLength > MinFragment
                  THEN << [chunk EXCEPT !.content =
                             Substring0(chunk.content, remainingLength) \o Ellipsis] >>
                  ELSE <<>>

\* A variant that goes on to later chunks after one that does not fit.
RECURSIVE truncateSkippingFrom(_, _, _, _)
truncateSkippingFrom(chunks, i, totalLength, maxLength) ==
  IF i > Len(chunks) THEN <<>>
  ELSE LET chunk == chunks[i]
           chunkLength == Len(chunk.content)
       IN IF totalLength + chunkLength <= maxLength
          THEN <<chunk>>
                 \o truncateSkippingFrom(chunks, i + 1, totalLength + chunkLength, maxLength)
          ELSE truncateSkippingFrom(chunks, i + 1, totalLength, maxLength)

truncateSkipping(chunks, maxLength) == truncateSkippingFrom(chunks, 1, 0, maxLength)

truncateByLength(chunks, maxLength) == truncateFrom(chunks, 1, 0, maxLength)

RECURSIVE insertDesc(_, _)
insertDesc(x, s) ==
  IF s = <<>> THEN <<x>>
  ELSE IF Head(s).similarity > x.similarity
       THEN <<Head(s)>> \o insertDesc(x, Tail(s))
       ELSE <<x>> \o s

RECURSIVE stableSortDesc(_)
stableSortDesc(s) ==
  IF s = <<>> THEN <<>> ELSE insertDesc(Head(s), stableSortDesc(Tail(s)))

\* A variant that is descending but puts equal chunks in reverse input order.
RECURSIVE insertAfterEqual(_, _)
insertAfterEqual(x, s) ==
  IF s = <<>> THEN <<x>>
  ELSE IF Head(s).similarity >= x.similarity
       THEN <<Head(s)>> \o insertAfterEqual(x, Tail(s))
       ELSE <<x>> \o s

RECURSIVE unstableSortFrom(_)
unstableSortFrom(s) ==
  IF s = <<>> THEN <<>> ELSE insertAfterEqual(Head(s), unstableSortFrom(Tail(s)))

unstableSortDesc(s) == unstableSortFrom(s)

\* Array.prototype.sort((a, b) => b.similarity - a.similarity): stable.
sortBySimilarityDesc(s) == stableSortDesc(s)

\* A variant with the comparison the wrong way round.
filterInverted(chunks, minSimilarity) ==
  SelectSeq(chunks, LAMBDA chunk : chunk.similarity <= minSimilarity)

filterBySimilarity(chunks, minSimilarity) ==
  SelectSeq(chunks, LAMBDA chunk : chunk.similarity >= minSimilarity)

\* A variant that sorts the caller's array instead of a copy of it.
processInPlace(cfg, chunks) ==
  LET sorted == IF cfg.sortBySimilarity # "false"
                THEN sortBySimilarityDesc(chunks)
                ELSE chunks
      filtered == IF cfg.minSimilarity # Undefined
                  THEN filterBySimilarity(sorted, cfg.minSimilarity)
                  ELSE sorted
      result == IF cfg.maxContextLength # Undefined /\ cfg.maxContextLength # 0
                THEN truncateByLength(filtered, cfg.maxContextLength)
                ELSE filtered
  IN [array |-> sorted, ordered |-> filtered, result |-> result]

\* processRetrievalChunks: `array` is the caller's array after the call,
\* `ordered` the local list handed to truncation, `result` the return value.
processRetrievalChunks(cfg, chunks) ==
  LET copied == chunks
      filtered == IF cfg.minSimilarity # Undefined
                  THEN filterBySimilarity(copied, cfg.minSimilarity)
                  ELSE copied
      ordered == IF cfg.sortBySimilarity # "false"
                 THEN sortBySimilarityDesc(filtered)
                 ELSE filtered
      result == IF cfg.maxContextLength # Undefined /\ cfg.maxContextLength # 0
                THEN truncateByLength(ordered, cfg.maxContextLength)
                ELSE ordered
  IN [array |-> chunks, ordered |-> ordered, result |-> result]

\* findLastUserMessage: the index of the last message with role user, 0 for null.
RECURSIVE findLastUserFrom(_, _)
findLastUserFrom(messages, i) ==
  IF i < 1 THEN 0
  ELSE IF messages[i].role = "user" THEN i ELSE findLastUserFrom(messages, i - 1)

\* Variants: the first user message; the last message whatever its role.
findFirstUserMessage(messages) ==
  IF \E i \in 1..Len(messages) : messages[i].role = "user"
  THEN CHOOSE i \in 1..Len(messages) :
         /\ messages[i].role = "user"
         /\ \A j \in 1..(i - 1) : messages[j].role # "user"
  ELSE 0

findLastMessage(messages) == Len(messages)

findLastUserMessage(messages) == findLastUserFrom(messages, Len(messages))

referenceHeader(index, chunk) ==
  <<"REF_OPEN", ToString(index), "REF_MID">>
    \o ToFixed1(FlMul(chunk.similarity, 100)) \o <<"REF_CLOSE">>

RECURSIVE referenceParts(_, _)
referenceParts(chunks, index) ==
  IF index > Len(chunks) THEN <<>>
  ELSE <<referenceHeader(index, chunks[index]), Trim(chunks[index].content), <<>>>>
         \o referenceParts(chunks, index + 1)

\* rewriteQuery <<>> is the falsy value (undefined or the empty string).
buildRAGContext(cfg, chunks) ==
  LET contextParts ==
        << <<"PREAMBLE">>, <<>> >>
          \o referenceParts(chunks, 1)
          \o (IF cfg.rewriteQuery # <<>>
              THEN << <<"REWRITE_HDR">>, <<"REWRITE_PRE">> \o cfg.rewriteQuery, <<>> >>
              ELSE <<>>)
          \o << <<"CLOSING">> >>
  IN Join(contextParts, <<NL>>)

injectRAGContext(originalContent, ragContext) ==
  Trim(Join(<<originalContent, <<>>, ragContext>>, <<NL>>))

\* BaseProvider.cloneContext: a deep clone, sharing nothing with its argument.
cloneContext(context) == [context |-> context, deep |-> TRUE]

\* BaseProvider.markAsExecuted
markAsExecuted(context) == [context EXCEPT !.executed = TRUE]

RECURSIVE SeqMin(_)
SeqMin(s) == IF Len(s) = 1 THEN s[1] ELSE Min2(s[1], SeqMin(Tail(s)))

RECURSIVE SeqMax(_)
SeqMax(s) == IF Len(s) = 1 THEN s[1] ELSE Max2(s[1], SeqMax(Tail(s)))

\* A variant that takes the last value, as if the list were always sorted.
lastValue(values) == values[Len(values)]

\* Math.min(...values), Math.max(...values)
mathMin(values) == SeqMin(values)
mathMax(values) == SeqMax(values)

\* reduce((sum, c) => sum + c.similarity, 0): float additions, left to right.
RECURSIVE sumSimilarity(_, _)
sumSimilarity(chunks, n) ==
  IF n = 0 THEN 0 ELSE FlAdd(sumSimilarity(chunks, n - 1), chunks[n].similarity)

similarities(chunks) == [i \in 1..Len(chunks) |-> chunks[i].similarity]

NoRagContext == [written |-> FALSE]

\* doProcess: `out` is the returned context, `input` the argument after the
\* call, `array` config.chunks after the call.
doProcess(cfg, context) ==
  LET cloned == cloneContext(context)
      clonedContext == cloned.context
      skip(why, p) ==
        [branch |-> why, input |-> context, out |-> markAsExecuted(clonedContext),
         array |-> p.array, ordered |-> p.ordered, processed |-> p.result,
         block |-> <<>>]
  IN IF ~cfg.hasChunks \/ Len(cfg.chunks) = 0
     THEN skip("no-chunks", [array |-> cfg.chunks, ordered |-> <<>>, result |-> <<>>])
     ELSE
       LET p == processRetrievalChunks(cfg, cfg.chunks)
           processedChunks == p.result
       IN IF Len(processedChunks) = 0 THEN skip("no-processed", p)
          ELSE
            LET i == findLastUserMessage(clonedContext.messages)
            IN IF i = 0 THEN skip("no-user", p)
               ELSE
                 LET ragContext == buildRAGContext(cfg, processedChunks)
                     updatedContent ==
                       injectRAGContext(clonedContext.messages[i].content, ragContext)
                     messages2 ==
                       [clonedContext.messages EXCEPT ![i].content = updatedContent]
                     stats ==
                       [written |-> TRUE,
                        chunksCount |-> Len(processedChunks),
                        totalContextLength |-> TextLength(ragContext),
                        queryId |-> cfg.queryId,
                        rewriteQuery |-> cfg.rewriteQuery,
                        minSimilarity |-> mathMin(similarities(processedChunks)),
                        maxSimilarity |-> mathMax(similarities(processedChunks)),
                        avgSimilarity |->
                          FlDiv(sumSimilarity(processedChunks, Len(processedChunks)),
                                Len(processedChunks))]
                     injected ==
                       [clonedContext EXCEPT !.messages = messages2,
                                             !.metadata.ragContext = stats]
                 IN [branch |-> "injected",
                     input |-> IF cloned.deep THEN context
                               ELSE [context EXCEPT !.messages = messages2],
                     out |-> markAsExecuted(injected),
                     array |-> p.array, ordered |-> p.ordered,
                     processed |-> processedChunks, block |-> ragContext]

\* preview(): [...undefined] throws when config.chunks is missing.
preview(cfg) ==
  IF ~cfg.hasChunks THEN [threw |-> TRUE, array |-> cfg.chunks]
  ELSE LET p == processRetrievalChunks(cfg, cfg.chunks)
       IN [threw |-> FALSE, array |-> p.array, ordered |-> p.ordered,
           processed |-> p.result, text |-> buildRAGContext(cfg, p.result)]

(***************************** inputs **************************************)
Roles == {"user", "assistant"}

\* A user message reads " q" (a leading blank), any other message "a".
ContentOf(role) == IF role = "user" THEN <<SP, "q">> ELSE <<"a">>

MessageLists ==
  UNION { { [i \in 1..n |-> [id |-> i, role |-> r[i], content |-> ContentOf(r[i])]] :
            r \in [1..n -> Roles] } : n \in 0..MaxMsgs }

Contexts ==
  { [messages |-> m, metadata |-> [ragContext |-> NoRagContext], executed |-> FALSE] :
    m \in MessageLists }

\* The query of a run: none, or a rewritten query with its identifier.
QueryInfos ==
  { [rewriteQuery |-> <<>>, queryId |-> "undefined"],
    [rewriteQuery |-> <<"q">>, queryId |-> "q1"] }

Configs ==
  { [chunks |-> c, hasChunks |-> TRUE, minSimilarity |-> ms, maxContextLength |-> ml,
     sortBySimilarity |-> so, rewriteQuery |-> q.rewriteQuery, queryId |-> q.queryId] :
    c \in ChunkLists, ms \in {Undefined} \cup MinSimValues,
    ml \in {Undefined} \cup MaxLenValues, so \in SortValues, q \in QueryInfos }

Idle == [op |-> "idle"]

(***************************** actions *************************************)
\* new RAGContextInjector(config), new PlaceholderVariableInjector()
Init ==
  /\ config \in Configs
  /\ ret = Idle
  /\ variables = [n \in {} |-> <<>>]
  /\ pret = Idle

setChunks ==
  /\ ret = Idle
  /\ \E c \in SetterLists : config' = [config EXCEPT !.chunks = c, !.hasChunks = TRUE]
  /\ UNCHANGED <<ret, variables, pret>>

\* setChunks(undefined)
setChunksMissing ==
  /\ ret = Idle
  /\ config' = [config EXCEPT !.chunks = <<>>, !.hasChunks = FALSE]
  /\ UNCHANGED <<ret, variables, pret>>

setMinSimilarity ==
  /\ ret = Idle
  /\ \E v \in MinSimValues : config' = [config EXCEPT !.minSimilarity = v]
  /\ UNCHANGED <<ret, variables, pret>>

setMaxContextLength ==
  /\ ret = Idle
  /\ \E v \in MaxLenValues : config' = [config EXCEPT !.maxContextLength = v]
  /\ UNCHANGED <<ret, variables, pret>>

\* process(context) -> doProcess(context); the result is held in ret until
\* the caller takes it.
Run ==
  /\ ret = Idle
  /\ \E context \in Contexts :
       LET r == doProcess(config, context)
       IN /\ ret' = [op |-> "run", cfg |-> config, arg |-> context, res |-> r]
          /\ config' = [config EXCEPT !.chunks = r.array]
  /\ UNCHANGED <<variables, pret>>

Preview ==
  /\ ret = Idle
  /\ LET r == preview(config)
     IN /\ ret' = [op |-> "preview", cfg |-> config, res |-> r]
        /\ config' = [config EXCEPT !.chunks = r.array]
  /\ UNCHANGED <<variables, pret>>

\* The caller takes the result.
Resume ==
  /\ ret # Idle
  /\ ret' = Idle
  /\ UNCHANGED <<config, variables, pret>>

Next ==
  \/ setChunks
  \/ setChunksMissing
  \/ setMinSimilarity
  \/ setMaxContextLength
  \/ Run
  \/ Preview
  \/ Resume

(***************************** PlaceholderVariableInjector *****************)
\* A pattern OPEN(.+?)CLOSE of the source's regular expressions.
InterpolatePattern == [open |-> <<"{", "{">>, close |-> <<"}", "}">>]
EscapePattern == [open |-> <<"{", "{", "{">>, close |-> <<"}", "}", "}">>]
EvaluatePattern == [open |-> <<"{", "%">>, close |-> <<"%", "}">>]

NoMatch == [found |-> FALSE]

\* `.` matches any character but a line terminator.
IsLineTerminator(c) == c \in {"\n", "\r"}

StartsWith(t, i, lit) ==
  /\ i >= 1
  /\ i + Len(lit) - 1 <= Len(t)
  /\ \A k \in 1..Len(lit) : t[i + k - 1] = lit[k]

\* Lazy (.+?): the first position j at which CLOSE follows a non-empty run of
\* `.` characters ending at j - 1; 0 when there is none.
RECURSIVE lazyGroupEnd(_, _, _)
lazyGroupEnd(t, j, close) ==
  IF j > Len(t) THEN 0
  ELSE IF IsLineTerminator(t[j - 1]) THEN 0
  ELSE IF StartsWith(t, j, close) THEN j
  ELSE lazyGroupEnd(t, j + 1, close)

matchAt(t, i, pattern) ==
  IF ~StartsWith(t, i, pattern.open) THEN NoMatch
  ELSE LET g == i + Len(pattern.open)
           j == lazyGroupEnd(t, g + 1, pattern.close)
       IN IF j = 0 THEN NoMatch
          ELSE [found |-> TRUE, index |-> i, end |-> j + Len(pattern.close),
                group |-> SubSeq(t, g, j - 1)]

\* RegExp.prototype.exec from lastIndex: the leftmost match at or after `from`.
RECURSIVE exec(_, _, _)
exec(t, from, pattern) ==
  IF from > Len(t) THEN NoMatch
  ELSE LET m == matchAt(t, from, pattern)
       IN IF m.found THEN m ELSE exec(t, from + 1, pattern)

\* The while loop of extractPlaceholders for one pattern.
RECURSIVE trimmedGroups(_, _, _)
trimmedGroups(t, from, pattern) ==
  LET m == exec(t, from, pattern)
  IN IF ~m.found THEN <<>>
     ELSE <<Trim(m.group)>> \o trimmedGroups(t, m.end, pattern)

\* [...new Set(list)]: first occurrences, in order.
RECURSIVE dedupe(_)
dedupe(list) ==
  IF list = <<>> THEN <<>>
  ELSE LET front == dedupe(SubSeq(list, 1, Len(list) - 1))
           last == list[Len(list)]
       IN IF \E k \in 1..Len(front) : front[k] = last THEN front
          ELSE Append(front, last)

extractPlaceholders(text) ==
  IF text = <<>> THEN <<>>
  ELSE dedupe(trimmedGroups(text, 1, InterpolatePattern)
                \o trimmedGroups(text, 1, EscapePattern)
                \o trimmedGroups(text, 1, EvaluatePattern))

hasPlaceholders(text) ==
  IF text = <<>> THEN FALSE
  ELSE \/ exec(text, 1, InterpolatePattern).found
       \/ exec(text, 1, EscapePattern).found
       \/ exec(text, 1, EvaluatePattern).found

\* lodash template, the delimiter scan: at each position the alternatives are
\* tried in the order escape | interpolate | evaluate.
delimiterAt(t, i) ==
  LET e == matchAt(t, i, EscapePattern)
      n == matchAt(t, i, InterpolatePattern)
      v == matchAt(t, i, EvaluatePattern)
  IN IF e.found THEN [found |-> TRUE, kind |-> "escape", end |-> e.end, expr |-> e.group]
     ELSE IF n.found
          THEN [found |-> TRUE, kind |-> "interpolate", end |-> n.end, expr |-> n.group]
     ELSE IF v.found
          THEN [found |-> TRUE, kind |-> "evaluate", end |-> v.end, expr |-> v.group]
     ELSE NoMatch

\* The compiled template: literal runs and delimiter segments, in order.
RECURSIVE segments(_, _, _)
segments(t, index, i) ==
  IF i > Len(t)
  THEN IF index <= Len(t) THEN <<[kind |-> "text", expr |-> SubSeq(t, index, Len(t))]>>
       ELSE <<>>
  ELSE LET d == delimiterAt(t, i)
       IN IF ~d.found THEN segments(t, index, i + 1)
          ELSE (IF index < i THEN <<[kind |-> "text", expr |-> SubSeq(t, index, i - 1)]>>
                ELSE <<>>)
                 \o <<[kind |-> d.kind, expr |-> d.expr]>>
                 \o segments(t, d.end, d.end)

Identifiers == {"a", "b", "x"}

\* The expressions of the model: an identifier is well formed, anything else
\* (an unbalanced brace, an empty expression) is a syntax error.
IsIdentifier(expr) == Len(Trim(expr)) = 1 /\ Trim(expr)[1] \in Identifiers

\* lodash escape: & < > " ' become entities.
escapeChar(c) ==
  IF c = "&" THEN <<"&", "a", "m", "p", ";">>
  ELSE IF c = "<" THEN <<"&", "l", "t", ";">>
  ELSE IF c = ">" THEN <<"&", "g", "t", ";">>
  ELSE <<c>>

RECURSIVE escapeHtml(_)
escapeHtml(t) == IF t = <<>> THEN <<>> ELSE escapeChar(Head(t)) \o escapeHtml(Tail(t))

\* Running the compiled function under with(obj): an identifier that obj does
\* not define is a ReferenceError.
RECURSIVE render(_, _, _)
render(segs, k, bag) ==
  IF k > Len(segs) THEN [threw |-> FALSE, text |-> <<>>]
  ELSE LET seg == segs[k]
           name == Trim(seg.expr)[1]
       IN IF seg.kind # "text" /\ name \notin DOMAIN bag THEN [threw |-> TRUE, text |-> <<>>]
          ELSE LET rest == render(segs, k + 1, bag)
                   piece == IF seg.kind = "text" THEN seg.expr
                            ELSE IF seg.kind = "interpolate" THEN bag[name]
                            ELSE IF seg.kind = "escape" THEN escapeHtml(bag[name])
                            ELSE <<>>
               IN IF rest.threw THEN rest
                  ELSE [threw |-> FALSE, text |-> piece \o rest.text]

\* The compiled source is parsed first (a SyntaxError), then run.
compileAndRun(segs, bag) ==
  IF \E k \in 1..Len(segs) : segs[k].kind # "text" /\ ~IsIdentifier(segs[k].expr)
  THEN [threw |-> TRUE, text |-> <<>>]
  ELSE render(segs, 1, bag)

\* template(text, {interpolate, escape, evaluate})(variables)
template(text, bag) == compileAndRun(segments(text, 1, 1), bag)

NoPlaceholderInfo == [written |-> FALSE]

\* The try block after the expansion e, and the catch block.
replaceContent(message, e, countOnError) ==
  IF e.threw THEN [message |-> message, processed |-> countOnError, errors |-> 1]
  ELSE [message |-> [message EXCEPT !.content = e.text],
        processed |-> IF e.text # message.content THEN 1 ELSE 0,
        errors |-> 0]

\* A variant that counts a failed message as processed as well.
processMessageCounting(message, bag) ==
  IF ~hasPlaceholders(message.content)
  THEN [message |-> message, processed |-> 0, errors |-> 0]
  ELSE replaceContent(message, template(message.content, bag), 1)

\* The callback of messages.map
processMessage(message, bag) ==
  IF ~hasPlaceholders(message.content)
  THEN [message |-> message, processed |-> 0, errors |-> 0]
  ELSE replaceContent(message, template(message.content, bag), 0)

RECURSIVE SumSeq(_)
SumSeq(s) == IF s = <<>> THEN 0 ELSE Head(s) + SumSeq(Tail(s))

\* After messages.map: the new messages and the metadata.
updateMetadata(clonedContext, done, bag) ==
  [clonedContext EXCEPT
     !.messages = [i \in 1..Len(done) |-> done[i].message],
     !.metadata.placeholders =
       [written |-> TRUE,
        placeholdersProcessed |-> SumSeq([i \in 1..Len(done) |-> done[i].processed]),
        placeholderErrors |-> SumSeq([i \in 1..Len(done) |-> done[i].errors]),
        availableVariables |-> DOMAIN bag]]

injectPlaceholders(bag, context) ==
  LET clonedContext == cloneContext(context).context
  IN IF DOMAIN bag = {}
     THEN [input |-> context, out |-> markAsExecuted(clonedContext)]
     ELSE [input |-> context,
           out |-> markAsExecuted(
                     updateMetadata(clonedContext,
                                    [i \in 1..Len(clonedContext.messages) |->
                                       processMessage(clonedContext.messages[i], bag)],
                                    bag))]

previewResult(text, e) ==
  IF e.threw THEN [original |-> text, processed |-> text, hasChanges |-> FALSE]
  ELSE [original |-> text, processed |-> e.text, hasChanges |-> e.text # text]

previewText(text, bag) ==
  IF ~hasPlaceholders(text)
  THEN [original |-> text, processed |-> text, hasChanges |-> FALSE]
  ELSE previewResult(text, template(text, bag))

(***************************** placeholder inputs **************************)
Parts ==
  { <<"x">>,
    <<"{">>,
    <<"}">>,
    <<"{", "{", "a", "}", "}">>,
    <<"{", "{", " ", "a", " ", "}", "}">>,
    <<"{", "{", "b", "}", "}">>,
    <<"{", "{", "{", "a", "}", "}", "}">>,
    <<"{", "%", "a", "%", "}">> }

RECURSIVE Concat(_)
Concat(ps) == IF ps = <<>> THEN <<>> ELSE Head(ps) \o Concat(Tail(ps))

\* The texts of extractPlaceholders and preview: up to MaxParts parts.
Texts == UNION { { Concat(ps) : ps \in [1..n -> Parts] } : n \in 0..MaxParts }

\* The contents of the messages of a placeholder run.
MessageTexts ==
  { <<>>,
    <<"x">>,
    <<"{", "{", "a", "}", "}">>,
    <<"{", "{", "{", "a", "}", "}", "}">>,
    <<"{", "{", "b", "}", "}">>,
    <<"{", "{", "a", "}", "}", "{", "{", "b", "}", "}">>,
    <<"{", "%", "a", "%", "}", "x">>,
    <<"{", "{", "{", "a", "}", "}">> }

PlaceholderContexts ==
  UNION { { [messages |-> [i \in 1..n |-> [id |-> i, role |-> "user", content |-> c[i]]],
             metadata |-> [placeholders |-> NoPlaceholderInfo],
             executed |-> FALSE] :
            c \in [1..n -> MessageTexts] } : n \in 0..MaxMsgs }

Keys == {"a", "b"}
Values == {<<"<">>, <<"y">>}
Bags == UNION { [S -> Values] : S \in SUBSET Keys }

DefaultConfig ==
  [chunks |-> <<>>, hasChunks |-> TRUE, minSimilarity |-> Undefined,
   maxContextLength |-> Undefined, sortBySimilarity |-> "undefined",
   rewriteQuery |-> <<>>, queryId |-> "undefined"]

(***************************** placeholder actions *************************)
\* new PlaceholderVariableInjector(variables)
InitPVI ==
  /\ config = DefaultConfig
  /\ ret = Idle
  /\ variables \in Bags
  /\ pret = Idle

setVariables ==
  /\ pret = Idle
  /\ \E b \in Bags : variables' = b
  /\ UNCHANGED <<config, ret, pret>>

addVariable ==
  /\ pret = Idle
  /\ \E k \in Keys, v \in Values :
       variables' = [n \in DOMAIN variables \cup {k} |-> IF n = k THEN v ELSE variables[n]]
  /\ UNCHANGED <<config, ret, pret>>

removeVariable ==
  /\ pret = Idle
  /\ \E k \in Keys : variables' = [n \in DOMAIN variables \ {k} |-> variables[n]]
  /\ UNCHANGED <<config, ret, pret>>

clearVariables ==
  /\ pret = Idle
  /\ variables' = [n \in {} |-> <<>>]
  /\ UNCHANGED <<config, ret, pret>>

RunPVI ==
  /\ pret = Idle
  /\ \E context \in PlaceholderContexts :
       pret' = [op |-> "run", bag |-> variables, arg |-> context,
                res |-> injectPlaceholders(variables, context)]
  /\ UNCHANGED <<config, ret, variables>>

PreviewPVI ==
  /\ pret = Idle
  /\ \E text \in Texts :
       pret' = [op |-> "preview", bag |-> variables, text |-> text,
                res |-> previewText(text, variables)]
  /\ UNCHANGED <<config, ret, variables>>

ExtractPlaceholders ==
  /\ pret = Idle
  /\ \E text \in Texts :
       pret' = [op |-> "extract", text |-> text, res |-> extractPlaceholders(text)]
  /\ UNCHANGED <<config, ret, variables>>

ResumePVI ==
  /\ pret # Idle
  /\ pret' = Idle
  /\ UNCHANGED <<config, ret, variables>>

NextPVI ==
  \/ setVariables
  \/ addVariable
  \/ removeVariable
  \/ clearVariables
  \/ RunPVI
  \/ PreviewPVI
  \/ ExtractPlaceholders
  \/ ResumePVI

SpecPVI == InitPVI /\ [][NextPVI]_vars

Spec == Init /\ [][Next]_vars

(***************************** properties **********************************)
Range(f) == {f[i] : i \in DOMAIN f}

\* The budgeting ran and its lists are in ret.
Budgeted ==
  \/ ret.op = "run" /\ ret.res.branch # "no-chunks"
  \/ ret.op = "preview" /\ ~ret.res.threw

RECURSIVE PrefixLength(_, _)
PrefixLength(chunks, k) ==
  IF k = 0 THEN 0 ELSE PrefixLength(chunks, k - 1) + Len(chunks[k].content)

TotalContentLength(chunks) == PrefixLength(chunks, Len(chunks))

BudgetApplied(cfg) == cfg.maxContextLength # Undefined /\ cfg.maxContextLength # 0

\* C1: with a maxContextLength supplied (a positive budget), the content
\* lengths of the chunks that processRetrievalChunks returns, the ellipsis of
\* a cut chunk included, sum to at most maxContextLength.
C1_TotalWithinBudget ==
  (Budgeted /\ BudgetApplied(ret.cfg))
    => TotalContentLength(ret.res.processed) <= ret.cfg.maxContextLength

\* The number of leading chunks that fit whole.
FitCount(chunks, max) ==
  CHOOSE k \in 0..Len(chunks) :
    /\ PrefixLength(chunks, k) <= max
    /\ k < Len(chunks) => PrefixLength(chunks, k + 1) > max

\* C2: truncation keeps the leading chunks that fit whole; the first chunk that
\* does not fit is kept as a copy cut to the remaining budget plus an ellipsis
\* only when the remaining budget exceeds 100, so no retained slice is shorter
\* than 100 characters; nothing after that chunk is kept.
C2_MinimumFragment ==
  (Budgeted /\ BudgetApplied(ret.cfg)) =>
    LET ordered == ret.res.ordered
        processed == ret.res.processed
        max == ret.cfg.maxContextLength
        k == FitCount(ordered, max)
        remaining == max - PrefixLength(ordered, k)
    IN /\ Len(processed) >= k
       /\ SubSeq(processed, 1, k) = SubSeq(ordered, 1, k)
       /\ IF k < Len(ordered) /\ remaining > 100
          THEN /\ Len(processed) = k + 1
               /\ processed[k + 1].id = ordered[k + 1].id
               /\ processed[k + 1].similarity = ordered[k + 1].similarity
               /\ processed[k + 1].content =
                    SubSeq(ordered[k + 1].content, 1, remaining) \o <<".", ".", ".">>
               /\ Len(processed[k + 1].content) - 3 >= 100
          ELSE Len(processed) = k

\* A chunk was cut to the remaining budget and a later chunk, which would have
\* fitted whole, was left out.
C2_Witness ==
  /\ Budgeted /\ BudgetApplied(ret.cfg)
  /\ Len(ret.res.processed) = 2
  /\ Len(ret.res.ordered) = 3
  /\ ret.res.processed[2].content # ret.res.ordered[2].content
  /\ Len(ret.res.processed[1].content) + Len(ret.res.ordered[3].content)
       <= ret.cfg.maxContextLength

\* C3: with minSimilarity supplied, the list handed to sorting and truncation
\* holds exactly the configured chunks with similarity >= minSimilarity, so
\* every returned chunk, and the minimum recorded in metadata.ragContext, is
\* >= minSimilarity.
C3_SimilarityFloor ==
  (Budgeted /\ ret.cfg.minSimilarity # Undefined) =>
    /\ \A i \in 1..Len(ret.res.processed) :
         ret.res.processed[i].similarity >= ret.cfg.minSimilarity
    /\ {c.id : c \in Range(ret.res.ordered)} =
         {c.id : c \in {d \in Range(ret.cfg.chunks) :
                          d.similarity >= ret.cfg.minSimilarity}}
    /\ (ret.op = "run" /\ ret.res.out.metadata.ragContext.written) =>
         /\ ret.res.out.metadata.ragContext.minSimilarity >= ret.cfg.minSimilarity
         /\ ret.res.out.metadata.ragContext.chunksCount = Len(ret.res.processed)

\* A run injected a block although some configured chunk was below the floor.
C3_Witness ==
  /\ ret.op = "run"
  /\ ret.cfg.minSimilarity # Undefined
  /\ ret.res.out.metadata.ragContext.written
  /\ \E c \in Range(ret.cfg.chunks) : c.similarity < ret.cfg.minSimilarity

\* The configured chunks that pass the filter, in input order.
Passing(cfg) ==
  SelectSeq(cfg.chunks,
            LAMBDA c : cfg.minSimilarity = Undefined \/ c.similarity >= cfg.minSimilarity)

\* C4: unless sortBySimilarity is false, the list handed to truncation is the
\* filtered list in descending order of similarity, chunks of equal similarity
\* in their input order.
C4_StableDescending ==
  (Budgeted /\ ret.cfg.sortBySimilarity # "false") =>
    LET ordered == ret.res.ordered
    IN /\ Len(ordered) = Len(Passing(ret.cfg))
       /\ Range(ordered) = Range(Passing(ret.cfg))
       /\ \A i, j \in 1..Len(ordered) :
            i < j => /\ ordered[i].similarity >= ordered[j].similarity
                     /\ ordered[i].similarity = ordered[j].similarity
                          => ordered[i].id < ordered[j].id

\* Sorting moved a chunk and two chunks of equal similarity were present.
C4_Witness ==
  /\ Budgeted /\ ret.cfg.sortBySimilarity # "false"
  /\ ret.res.ordered # Passing(ret.cfg)
  /\ \E i, j \in 1..Len(ret.res.ordered) :
       i < j /\ ret.res.ordered[i].similarity = ret.res.ordered[j].similarity

UserIndices(messages) == {i \in 1..Len(messages) : messages[i].role = "user"}

LastUser(messages) ==
  CHOOSE i \in UserIndices(messages) : \A j \in UserIndices(messages) : j <= i

\* C5: when the post-budget chunk set is not empty and some message has role
\* user, only the last user message changes: its content becomes
\* trim(original + newline + empty line + block); every other message keeps
\* its content, role and position.
C5_OnlyLastUserMessage ==
  (ret.op = "run" /\ ret.res.processed # <<>> /\ UserIndices(ret.arg.messages) # {}) =>
    LET before == ret.arg.messages
        after == ret.res.out.messages
        last == LastUser(before)
    IN /\ Len(after) = Len(before)
       /\ \A i \in 1..Len(before) : i # last => after[i] = before[i]
       /\ after[last].id = before[last].id
       /\ after[last].role = before[last].role
       /\ after[last].content # before[last].content
       /\ after[last].content =
            Trim(before[last].content \o <<"\n">> \o <<"\n">> \o ret.res.block)
       /\ ret.res.block # <<>>

\* A block was injected into the second of two user messages.
C5_Witness ==
  /\ ret.op = "run"
  /\ ret.res.processed # <<>>
  /\ UserIndices(ret.arg.messages) = {1, 2}
  /\ ret.res.out.messages[2].content # ret.arg.messages[2].content

NothingToInject ==
  \/ ~ret.cfg.hasChunks
  \/ ret.cfg.chunks = <<>>
  \/ ret.res.processed = <<>>
  \/ UserIndices(ret.arg.messages) = {}

C7_InputsUnchanged ==
  (ret.op \in {"run", "preview"}) =>
    /\ config = ret.cfg
    /\ ret.op = "run" => /\ ret.res.input = ret.arg
                         /\ ~ret.arg.executed

\* A run that reordered the chunks, cut one of them and changed a message.
C7_Witness ==
  /\ ret.op = "run"
  /\ ret.res.out.metadata.ragContext.written
  /\ \E i \in 1..Len(ret.res.processed) :
       ret.res.processed[i].id # ret.cfg.chunks[i].id
  /\ \E i \in 1..Len(ret.res.processed) : \E c \in Range(ret.cfg.chunks) :
       c.id = ret.res.processed[i].id /\ c.content # ret.res.processed[i].content
  /\ config.chunks = ret.cfg.chunks

SetMin(S) == CHOOSE x \in S : \A y \in S : x <= y
SetMax(S) == CHOOSE x \in S : \A y \in S : x >= y

RenderedCount(block) == Cardinality({i \in 1..Len(block) : block[i] = "REF_OPEN"})

StatisticsOfProcessed ==
  LET stats == ret.res.out.metadata.ragContext
      sims == {c.similarity : c \in Range(ret.res.processed)}
  IN /\ ret.res.processed # <<>>
     /\ stats.chunksCount = Len(ret.res.processed)
     /\ stats.chunksCount >= 1
     /\ stats.chunksCount = RenderedCount(ret.res.block)
     /\ stats.minSimilarity = SetMin(sims)
     /\ stats.maxSimilarity = SetMax(sims)

\* C10 as stated: the statistics are those of the post-budget chunks, which are
\* not empty, and the average lies between the minimum and the maximum.
C10_AverageWithinRange ==
  (ret.op = "run" /\ ret.res.out.metadata.ragContext.written) =>
    /\ StatisticsOfProcessed
    /\ ret.res.out.metadata.ragContext.minSimilarity
         <= ret.res.out.metadata.ragContext.avgSimilarity
    /\ ret.res.out.metadata.ragContext.avgSimilarity
         <= ret.res.out.metadata.ragContext.maxSimilarity

RECURSIVE FloatSum(_, _)
FloatSum(chunks, n) ==
  IF n = 0 THEN 0 ELSE FlRound(FloatSum(chunks, n - 1) + chunks[n].similarity, 1)

\* C10: whenever metadata.ragContext is written, the post-budget chunk set is
\* not empty, chunksCount is its size (>= 1) and the number of chunks rendered,
\* minSimilarity and maxSimilarity are its minimum and maximum, and
\* avgSimilarity is the rounded quotient of the rounded left-to-right sum of
\* its similarities by its size.
C10_Statistics ==
  (ret.op = "run" /\ ret.res.out.metadata.ragContext.written) =>
    /\ StatisticsOfProcessed
    /\ ret.res.out.metadata.ragContext.minSimilarity
         <= ret.res.out.metadata.ragContext.maxSimilarity
    /\ ret.res.out.metadata.ragContext.avgSimilarity =
         FlRound(FloatSum(ret.res.processed, Len(ret.res.processed)),
                 Len(ret.res.processed))

\* Statistics over two chunks of different similarity, after a chunk was
\* removed by the filter or the budget.
C10_Witness ==
  /\ ret.op = "run"
  /\ ret.res.out.metadata.ragContext.written
  /\ ret.res.out.metadata.ragContext.chunksCount = 2
  /\ ret.res.out.metadata.ragContext.minSimilarity
       < ret.res.out.metadata.ragContext.maxSimilarity
  /\ Len(ret.cfg.chunks) > 2

Throws(message, bag) == hasPlaceholders(message.content) /\ template(message.content, bag).threw

Changes(message, bag) ==
  /\ hasPlaceholders(message.content)
  /\ ~template(message.content, bag).threw
  /\ template(message.content, bag).text # message.content

\* C8: in a placeholder run with a non-empty variable bag the output has the
\* input's messages in the input's order; a message whose expansion throws
\* keeps its content and counts once in placeholderErrors and not in
\* placeholdersProcessed; the other messages carry their expansion.
C8_FailureIsolated ==
  (pret.op = "run" /\ DOMAIN pret.bag # {}) =>
    LET before == pret.arg.messages
        after == pret.res.out.messages
        info == pret.res.out.metadata.placeholders
    IN /\ Len(after) = Len(before)
       /\ \A i \in 1..Len(before) :
            /\ after[i].id = before[i].id
            /\ after[i].role = before[i].role
            /\ Throws(before[i], pret.bag) => after[i].content = before[i].content
            /\ (hasPlaceholders(before[i].content) /\ ~Throws(before[i], pret.bag))
                 => after[i].content = template(before[i].content, pret.bag).text
            /\ ~hasPlaceholders(before[i].content) => after[i] = before[i]
       /\ info.written
       /\ info.placeholderErrors =
            Cardinality({i \in 1..Len(before) : Throws(before[i], pret.bag)})
       /\ info.placeholdersProcessed =
            Cardinality({i \in 1..Len(before) : Changes(before[i], pret.bag)})

\* One message failed and kept its content, the other was expanded.
C8_Witness ==
  /\ pret.op = "run"
  /\ DOMAIN pret.bag # {}
  /\ Len(pret.arg.messages) = 2
  /\ Throws(pret.arg.messages[1], pret.bag)
  /\ Changes(pret.arg.messages[2], pret.bag)
  /\ pret.res.out.messages[1].content = pret.arg.messages[1].content
  /\ pret.res.out.messages[2].content # pret.arg.messages[2].content
  /\ pret.res.out.metadata.placeholders.placeholderErrors = 1
  /\ pret.res.out.metadata.placeholders.placeholdersProcessed = 1

\* The placeholders of a text, each classified once, {{{ }}} before {{ }}.
RECURSIVE Placeholders(_, _)
Placeholders(t, i) ==
  IF i > Len(t) THEN {}
  ELSE LET e == matchAt(t, i, EscapePattern)
           n == matchAt(t, i, InterpolatePattern)
           v == matchAt(t, i, EvaluatePattern)
       IN IF e.found THEN {Trim(e.group)} \cup Placeholders(t, e.end)
          ELSE IF n.found THEN {Trim(n.group)} \cup Placeholders(t, n.end)
          ELSE IF v.found THEN {Trim(v.group)} \cup Placeholders(t, v.end)
          ELSE Placeholders(t, i + 1)

\* C9: extractPlaceholders returns, without repetition, exactly the trimmed
\* expressions of the placeholders of the text; for "{{{a}}}" that is "a" alone.
C9_ExactPlaceholders ==
  (pret.op = "extract") =>
    /\ Cardinality(Range(pret.res)) = Len(pret.res)
    /\ Range(pret.res) = Placeholders(pret.text, 1)
    /\ pret.text = <<"{", "{", "{", "a", "}", "}", "}">> => pret.res = << <<"a">> >>

====
